---- MODULE Spec2Model ----
(***************************************************************************)
(* A model of copycheck.py, the verified-copy pipeline of vendorspender:   *)
(* source digest pass, copy, destination digest pass, comparison and       *)
(* manifest emission (run_all_flow), the standalone 'copy' command, and    *)
(* the comparator compare_shas on arbitrary digest mappings.  Further      *)
(* specifications: SpecLedger (a ledger written and read back by the       *)
(* interactive 'verify'), SpecRuns (run after run into one destination     *)
(* root, stamps from the wall clock), SpecTamper (a destination file       *)
(* changed between the copy and the destination digest pass).              *)
(*                                                                         *)
(* A file name is a sequence of tokens, a relative path a sequence of file *)
(* names (its components), so that str.startswith and os.path.basename are *)
(* computed and not assumed.  A file's content is a number, 0 the empty    *)
(* file.  The file system is a function from (root, relative path) to a    *)
(* content or NoFile; the roots are "S", the source top folder, and "D",   *)
(* dest_parent/<top_name> when that is a different directory.              *)
(***************************************************************************)
EXTENDS Integers, Sequences, FiniteSets, TLC

(***************************************************************************)
(* Bounds.                                                                 *)
(***************************************************************************)
NumContents == 2
MaxFailures == 2
TicksPerSecond == 2
MaxClock == 7
MaxRuns == 3

(***************************************************************************)
(* Program constants.                                                      *)
(***************************************************************************)
SAMPLE_LIMIT == 200

EXCLUDE_PREFIXES == { <<"checksums_", "source_">> }

(***************************************************************************)
(* Names, paths, contents and digests.                                     *)
(***************************************************************************)
FileA      == << <<"a">> >>
FileSubB   == << <<"sub">>, <<"b">> >>
FileSubOld == << <<"sub">>, <<"checksums_", "source_", "t0", ".txt">> >>

\* The stamp now_stamp returns for the run that is modelled; "t0" is the stamp
\* of an earlier run.
now_stamp == "t1"

\* checksums_source_<stamp>.txt, checksums_dest_<stamp>.txt and
\* manifest_<stamp>.json, as paths relative to the root they are written in.
src_checksums_name  == << <<"checksums_", "source_", now_stamp, ".txt">> >>
dest_checksums_name == << <<"checksums_", "dest_", now_stamp, ".txt">> >>
manifest_name       == << <<"manifest_", now_stamp, ".json">> >>

\* Every path of the model in lexicographic order of its "/"-joined string
\* (the order of sorted()); it is also an order os.walk can produce: the files
\* of the top directory, then those of sub/.
SortedPaths ==
    << FileA, dest_checksums_name, src_checksums_name, manifest_name,
       FileSubB, FileSubOld >>

\* The payload paths: the files a tree can hold before the run.
Paths == { FileA, FileSubB, FileSubOld }

Roots == { "S", "D" }

\* t.strftime("%Y%m%d_%H%M%S") of the wall clock time t: the time to the second.
strftime(t) == t \div TicksPerSecond

Stamps == { strftime(t) : t \in 0..MaxClock }

Contents == 0..NumContents

NoFile == 0 - 1

\* hashlib.sha256 over the whole content: distinct contents, distinct digests.
compute_sha256_stream(c) == << "sha256", c >>

\* Python's None, the value recorded when no digest is available.
None == << "None" >>

Digests == { compute_sha256_stream(c) : c \in Contents }

\* All dictionaries relative path -> digest or None.
Mappings == UNION { [K -> Digests \cup {None}] : K \in SUBSET Paths }

\* os.path.basename of a relative path.
Basename(p) == p[Len(p)]

\* str.startswith
StartsWith(s, prefix) ==
    /\ Len(s) >= Len(prefix)
    /\ SubSeq(s, 1, Len(prefix)) = prefix

\* The last n elements of a list instead of the first.
Take_Last(s, n) ==
    SubSeq(s, (IF Len(s) < n THEN 0 ELSE Len(s) - n) + 1, Len(s))

\* First n elements of a list: list[:n].
Take(s, n) == SubSeq(s, 1, IF Len(s) < n THEN Len(s) ELSE n)

(***************************************************************************)
(* compare_shas                                                            *)
(***************************************************************************)
\* dict.get(k): None when the key is absent.
Get(m, k) == IF k \in DOMAIN m THEN m[k] ELSE None

\* Classify with the equality test inverted.
Classify_InvertedEquality(s, d) ==
    IF s = None /\ d = None THEN "skipped"
    ELSE IF s = None THEN "extra_in_destination"
    ELSE IF d = None THEN "missing_in_destination"
    ELSE IF s # d THEN "matched"
    ELSE "mismatched"

Classify_MissingAsMismatched(s, d) ==
    IF s = None /\ d = None THEN "skipped"
    ELSE IF s = None THEN "extra_in_destination"
    ELSE IF d = None THEN "mismatched"
    ELSE IF s = d THEN "matched"
    ELSE "mismatched"

\* The branch of the loop body of compare_shas taken for the pair (s, d).
Classify(s, d) ==
    IF s = None /\ d = None THEN "skipped"
    ELSE IF s = None THEN "extra_in_destination"
    ELSE IF d = None THEN "missing_in_destination"
    ELSE IF s = d THEN "matched"
    ELSE "mismatched"

\* sorted(src_keys.union(dest_keys))
AllKeys(src, dest) ==
    SelectSeq(SortedPaths, LAMBDA k : k \in (DOMAIN src) \cup (DOMAIN dest))

\* The list compare_shas builds for one category, in the order of all_keys.
Bucket(src, dest, cat) ==
    SelectSeq(AllKeys(src, dest),
              LAMBDA k : Classify(Get(src, k), Get(dest, k)) = cat)

compare_shas(src, dest) ==
    [ matched                |-> Len(Bucket(src, dest, "matched")),
      mismatched             |-> Len(Bucket(src, dest, "mismatched")),
      missing_in_destination |-> Len(Bucket(src, dest, "missing_in_destination")),
      extra_in_destination   |-> Len(Bucket(src, dest, "extra_in_destination")),
      mismatch_sample        |-> Take(Bucket(src, dest, "mismatched"), SAMPLE_LIMIT),
      missing_sample         |-> Take(Bucket(src, dest, "missing_in_destination"), SAMPLE_LIMIT),
      extra_sample           |-> Take(Bucket(src, dest, "extra_in_destination"), SAMPLE_LIMIT) ]

\* Verdict that forgets the extra_in_destination count.
Verdict_IgnoresExtra(verification_summary) ==
    IF /\ verification_summary.mismatched = 0
       /\ verification_summary.missing_in_destination = 0
    THEN "PASS" ELSE "FAIL"

\* The verdict expression of write_manifest.
Verdict(verification_summary) ==
    IF /\ verification_summary.mismatched = 0
       /\ verification_summary.missing_in_destination = 0
       /\ verification_summary.extra_in_destination = 0
    THEN "PASS" ELSE "FAIL"

(***************************************************************************)
(* State.                                                                  *)
(***************************************************************************)
VARIABLES
    cmd,                \* "all" or "copy": the command that was started
    force,              \* --force
    confirm,            \* the answer to the "Destination exists" prompt
    srcKind,            \* what the source path is: "dir", "file", "missing"
    dpKind,             \* what the destination parent path is
    finalDest,          \* the root final_dest names: "D", or "S" when
                        \* dest_parent is the directory that holds the source
    fs,                 \* [Roots \X Paths -> Contents \cup {NoFile}]
    dirs,               \* the directories that exist: <<root, directory>>
    start,              \* fs, dirs and dpKind when the command was started
    ledgers,            \* the ledger files of the run: role -> list of lines
    pc,                 \* position in main / run_all_flow
    rc,                 \* exit status, NoRc while running
    pass,               \* write_checksums_file: "source" or "dest" pass
    relpaths,           \* write_checksums_file: its argument relpaths
    shas,               \* write_checksums_file: its local shas
    i,                  \* loop index of the running digest pass or copy
    src_shas,           \* run_all_flow locals
    src_checksums_hash,
    files_to_copy,
    copied_relpaths,
    dest_shas,
    dest_checksums_hash,
    verification_summary,   \* << >> until compare_shas has returned
    manifest,               \* << >> until write_manifest has written it
    failures,               \* number of I/O failures so far
    reloaded,               \* 'verify': the mapping read back from a ledger
    tampered,               \* destination paths changed behind the run's back
    clock,                  \* wall clock, in ticks
    runs,                   \* the stamps of the 'all' runs completed so far
    dest_manifests,         \* manifest_<stamp>.json files of the destination
                            \* root: stamp -> the run that wrote it, 0 if none
    first_run,              \* the comparison summary of the run before this
                            \* one, << >> in a first run
    atomize,                \* atomize.py: its flags, position and what it
                            \* has changed in the file system
    seed_csv                \* seed_log.py: the CSV file given to ensure_csv

vars ==
    << cmd, force, confirm, srcKind, dpKind, finalDest, fs, dirs, start, ledgers, pc, rc,
       pass, relpaths, shas, i, src_shas, src_checksums_hash, files_to_copy,
       copied_relpaths, dest_shas, dest_checksums_hash, verification_summary,
       manifest, failures, reloaded, tampered, clock, runs, dest_manifests,
       first_run, atomize, seed_csv >>

NoRc == 0 - 1

EmptyMap == [k \in {} |-> None]

Put(m, k, v) == [x \in (DOMAIN m) \cup {k} |-> IF x = k THEN v ELSE m[x]]

\* The directory part of a relative path: << >> is the root itself.
Dirname(p) == SubSeq(p, 1, Len(p) - 1)

\* The root a digest pass reads: pkg_root of write_checksums_file.
PassRoot == IF pass = "source" THEN "S" ELSE finalDest

\* Whether a file exists at a path under a root: the payload files of fs and
\* the files the run itself has written (the two ledgers and the manifest).
Exists(root, p) ==
    IF p \in Paths THEN fs[<<root, p>>] # NoFile
    ELSE IF p = src_checksums_name THEN root = "S" /\ ledgers.source # << >>
    ELSE IF p = dest_checksums_name THEN root = finalDest /\ ledgers.dest # << >>
    ELSE root = finalDest /\ manifest # << >>

\* os.path.getsize: the content number of a payload file, the number of lines
\* of a ledger.
GetSize(root, p) ==
    IF p \in Paths THEN fs[<<root, p>>]
    ELSE IF p = src_checksums_name THEN Len(ledgers.source)
    ELSE IF p = dest_checksums_name THEN Len(ledgers.dest)
    ELSE 1

\* The relative paths os.walk(root) yields, in walk order.
WalkFiles(root) == SelectSeq(SortedPaths, LAMBDA p : Exists(root, p))

list_files_recursive(root) ==
    [ n \in 1..Len(WalkFiles(root)) |->
        [ rel_path |-> WalkFiles(root)[n],
          size     |-> GetSize(root, WalkFiles(root)[n]) ] ]

\* IsExcluded testing the relative path instead of the file name.
IsExcluded_TestsRelPath(rel) ==
    \E prefix \in EXCLUDE_PREFIXES : StartsWith(rel[1], prefix)

\* any(fn.startswith(p) for p in EXCLUDE_PREFIXES), fn the file's own name.
IsExcluded(rel) ==
    \E prefix \in EXCLUDE_PREFIXES : StartsWith(Basename(rel), prefix)

\* The files_to_copy list copy_include_top_with_progress builds.
FilesToCopy == SelectSeq(WalkFiles("S"), LAMBDA rel : ~ IsExcluded(rel))

\* One line of a ledger: "<sha>  *<rel>" or "ERROR_NO_SHA  *<rel>".
ERROR_NO_SHA == << "ERROR_NO_SHA" >>

LedgerLine(sha, rel) == << sha, rel >>

LedgerHeader ==
    << << <<"#">>, <<"checksums file started at">> >>,
       << <<"#">>, <<"package">> >> >>

\* The digest of a ledger file's own content.
compute_small_file_sha256(lines) == << "sha256", lines >>

\* The manifest write_manifest serializes.
BuildManifest(items, dshas, summary, src_hash, dest_hash) ==
    [ stamp        |-> now_stamp,
      file_count   |-> Len(items),
      files        |-> [ n \in 1..Len(items) |->
                           [ rel_path |-> items[n].rel_path,
                             size     |-> items[n].size,
                             sha256   |-> Get(dshas, items[n].rel_path) ] ],
      checksums    |-> [ source      |-> [ file   |-> src_checksums_name,
                                           sha256 |-> src_hash ],
                         destination |-> [ file   |-> dest_checksums_name,
                                           sha256 |-> dest_hash ] ],
      verification |-> summary,
      result       |-> Verdict(summary) ]

(***************************************************************************)
(* Initial states: a command line and two directory trees.                 *)
(***************************************************************************)
Kinds == { "dir", "file", "missing" }

RootDir == << >>
SubDir  == << <<"sub">> >>

EmptyTree == [p \in Paths |-> NoFile]

\* The source trees of the model: a and sub/b with any non-empty content or
\* absent, and possibly the source ledger of an earlier run in sub/.
SourceTrees ==
    { t \in [Paths -> {NoFile} \cup Contents] :
        /\ t[FileA] # 0
        /\ t[FileSubB] # 0
        /\ t[FileSubOld] \in {NoFile, 1} }

\* What an existing destination root holds before the run.
DestTrees ==
    { t \in [Paths -> {NoFile, 1}] : t[FileSubOld] = NoFile }

TreeDirs(root, t, exists) ==
    (IF exists THEN { <<root, RootDir>> } ELSE {})
    \cup (IF \E p \in Paths : t[p] # NoFile /\ Dirname(p) = SubDir
          THEN { <<root, SubDir>> } ELSE {})

\* atomize.py and seed_log.py not started.
AtomizeIdle == [pc |-> "idle"]
CsvIdle == [calls |-> 0]

InitTools ==
    /\ atomize = AtomizeIdle
    /\ seed_csv = CsvIdle

InitLocals ==
    /\ confirm = ""
    /\ ledgers = [source |-> << >>, dest |-> << >>]
    /\ rc = NoRc
    /\ pass = "source"
    /\ relpaths = << >>
    /\ shas = EmptyMap
    /\ i = 0
    /\ src_checksums_hash = None
    /\ files_to_copy = << >>
    /\ copied_relpaths = << >>
    /\ dest_checksums_hash = None
    /\ verification_summary = << >>
    /\ manifest = << >>
    /\ failures = 0
    /\ reloaded = << >>
    /\ tampered = {}
    /\ clock = 0
    /\ runs = << >>
    /\ dest_manifests = [s \in Stamps |-> 0]
    /\ first_run = << >>

Init ==
    /\ cmd \in {"all", "copy"}
    /\ force \in BOOLEAN
    /\ srcKind \in Kinds
    /\ dpKind \in Kinds
    /\ finalDest \in Roots
    /\ finalDest = "S" => (srcKind = "dir" /\ dpKind = "dir")
    /\ \E st \in SourceTrees, dt \in DestTrees, dExists \in BOOLEAN :
          /\ srcKind # "dir" => st = EmptyTree
          /\ dExists => (dpKind = "dir" /\ finalDest = "D")
          /\ ~ dExists => dt = EmptyTree
          /\ fs = [loc \in Roots \X Paths |->
                     IF loc[1] = "S" THEN st[loc[2]] ELSE dt[loc[2]]]
          /\ dirs = TreeDirs("S", st, srcKind = "dir") \cup TreeDirs("D", dt, dExists)
    /\ start = [fs |-> fs, dirs |-> dirs, dpKind |-> dpKind]
    /\ pc = "start"
    /\ src_shas = EmptyMap
    /\ dest_shas = EmptyMap
    /\ InitLocals
    /\ InitTools

(***************************************************************************)
(* run_all_flow, up to the call of the source digest pass.                 *)
(***************************************************************************)
Exit(status) ==
    /\ pc' = "done"
    /\ rc' = status

RunAllFlowStart ==
    /\ pc = "start"
    /\ cmd = "all"
    /\ IF srcKind # "dir" THEN
           Exit(2) /\ UNCHANGED << confirm, pass, relpaths >>
       ELSE IF dpKind # "dir" THEN
           Exit(3) /\ UNCHANGED << confirm, pass, relpaths >>
       ELSE
           /\ IF <<finalDest, RootDir>> \in dirs /\ ~ force
              THEN confirm' \in {"YES", ""}
              ELSE confirm' = confirm
           /\ IF <<finalDest, RootDir>> \in dirs /\ ~ force /\ confirm' # "YES" THEN
                  Exit(4) /\ UNCHANGED << pass, relpaths >>
              ELSE
                  /\ pass' = "source"
                  /\ relpaths' = WalkFiles("S")
                  /\ pc' = "hash_open"
                  /\ rc' = rc
    /\ UNCHANGED << atomize, seed_csv, first_run,
                    reloaded, tampered, clock, runs, dest_manifests,
                    cmd, force, srcKind, dpKind, finalDest, fs, dirs, start,
                    ledgers, shas, i, src_shas, src_checksums_hash,
                    files_to_copy, copied_relpaths, dest_shas,
                    dest_checksums_hash, verification_summary, manifest,
                    failures >>

(***************************************************************************)
(* write_checksums_file                                                    *)
(***************************************************************************)
HashOpen ==
    /\ pc = "hash_open"
    /\ ledgers' = [ledgers EXCEPT ![pass] = LedgerHeader]
    /\ shas' = EmptyMap
    /\ i' = 0
    /\ pc' = "hash"
    /\ UNCHANGED << atomize, seed_csv, first_run,
                    reloaded, tampered, clock, runs, dest_manifests,
                    cmd, force, confirm, srcKind, dpKind, finalDest, fs, dirs, start, rc,
                    pass, relpaths, src_shas, src_checksums_hash,
                    files_to_copy, copied_relpaths, dest_shas,
                    dest_checksums_hash, verification_summary, manifest,
                    failures >>

HashFile_ErrorLineOmitted ==
    /\ pc = "hash"
    /\ i < Len(relpaths)
    /\ LET rel == relpaths[i + 1]
           c   == fs[<<PassRoot, rel>>]
       IN  \/ /\ c # NoFile
              /\ shas' = Put(shas, rel, compute_sha256_stream(c))
              /\ ledgers' = [ledgers EXCEPT ![pass] =
                               Append(@, LedgerLine(compute_sha256_stream(c), rel))]
              /\ failures' = failures
           \/ /\ c = NoFile \/ failures < MaxFailures
              /\ shas' = Put(shas, rel, None)
              /\ ledgers' = ledgers
              /\ failures' = IF c = NoFile THEN failures ELSE failures + 1
    /\ i' = i + 1
    /\ UNCHANGED << atomize, seed_csv, first_run,
                    reloaded, tampered, clock, runs, dest_manifests,
                    cmd, force, confirm, srcKind, dpKind, finalDest, fs, dirs, start, pc,
                    rc, pass, relpaths, src_shas, src_checksums_hash,
                    files_to_copy, copied_relpaths, dest_shas,
                    dest_checksums_hash, verification_summary, manifest >>

\* One iteration of the loop of write_checksums_file.
HashFile ==
    /\ pc = "hash"
    /\ i < Len(relpaths)
    /\ LET rel == relpaths[i + 1]
           c   == fs[<<PassRoot, rel>>]
       IN  \/ /\ c # NoFile
              /\ shas' = Put(shas, rel, compute_sha256_stream(c))
              /\ ledgers' = [ledgers EXCEPT ![pass] =
                               Append(@, LedgerLine(compute_sha256_stream(c), rel))]
              /\ failures' = failures
           \/ /\ c = NoFile \/ failures < MaxFailures
              /\ shas' = Put(shas, rel, None)
              /\ ledgers' = [ledgers EXCEPT ![pass] =
                               Append(@, LedgerLine(ERROR_NO_SHA, rel))]
              /\ failures' = IF c = NoFile THEN failures ELSE failures + 1
    /\ i' = i + 1
    /\ UNCHANGED << atomize, seed_csv, first_run,
                    reloaded, tampered, clock, runs, dest_manifests,
                    cmd, force, confirm, srcKind, dpKind, finalDest, fs, dirs, start, pc,
                    rc, pass, relpaths, src_shas, src_checksums_hash,
                    files_to_copy, copied_relpaths, dest_shas,
                    dest_checksums_hash, verification_summary, manifest >>

\* The ledger's digest taken when the ledger was created, before its pass.
LedgerHash_AtCreation(role, h) ==
    \/ h = compute_small_file_sha256(LedgerHeader) /\ failures' = failures
    \/ failures < MaxFailures /\ h = None /\ failures' = failures + 1

\* The value run_all_flow records for a ledger's own digest: the digest, or
\* None when computing it raised.
LedgerHash(role, h) ==
    \/ h = compute_small_file_sha256(ledgers[role]) /\ failures' = failures
    \/ failures < MaxFailures /\ h = None /\ failures' = failures + 1

SourcePassDone ==
    /\ pc = "hash"
    /\ pass = "source"
    /\ i = Len(relpaths)
    /\ src_shas' = shas
    /\ LedgerHash("source", src_checksums_hash')
    /\ pc' = "copy_begin"
    /\ UNCHANGED << atomize, seed_csv, first_run,
                    reloaded, tampered, clock, runs, dest_manifests,
                    cmd, force, confirm, srcKind, dpKind, finalDest, fs, dirs, start,
                    ledgers, rc, pass, relpaths, shas, i, files_to_copy,
                    copied_relpaths, dest_shas, dest_checksums_hash,
                    verification_summary, manifest >>

DestPassDone ==
    /\ pc = "hash"
    /\ pass = "dest"
    /\ i = Len(relpaths)
    /\ dest_shas' = shas
    /\ LedgerHash("dest", dest_checksums_hash')
    /\ pc' = "compare"
    /\ UNCHANGED << atomize, seed_csv, first_run,
                    reloaded, tampered, clock, runs, dest_manifests,
                    cmd, force, confirm, srcKind, dpKind, finalDest, fs, dirs, start,
                    ledgers, rc, pass, relpaths, shas, i, src_shas,
                    src_checksums_hash, files_to_copy, copied_relpaths,
                    verification_summary, manifest >>

(***************************************************************************)
(* copy_include_top_with_progress and safe_copy_file                       *)
(***************************************************************************)
\* os.makedirs(final_dest/<d>, exist_ok=True): the directory and its parents.
MakeDirs(d) == dirs \cup { <<finalDest, SubSeq(d, 1, n)>> : n \in 0..Len(d) }

\* What safe_copy_file leaves at the destination path when it succeeds: the
\* destination is opened for writing, and so truncated, before the first read
\* of the source.
CopiedContent(rel) == IF finalDest = "S" THEN 0 ELSE fs[<<"S", rel>>]

\* Entered from run_all_flow after the source digest pass, and directly from
\* main for the 'copy' command.
CopyBegin ==
    /\ \/ pc = "copy_begin"
       \/ pc = "start" /\ cmd = "copy"
    /\ IF dpKind = "file" THEN
           /\ Exit(2)
           /\ UNCHANGED << dpKind, dirs, files_to_copy, copied_relpaths, i >>
       ELSE
           /\ dpKind' = "dir"
           /\ dirs' = MakeDirs(RootDir)
           /\ files_to_copy' = FilesToCopy
           /\ copied_relpaths' = << >>
           /\ i' = 0
           /\ pc' = "copy"
           /\ rc' = rc
    /\ UNCHANGED << atomize, seed_csv, first_run,
                    reloaded, tampered, clock, runs, dest_manifests,
                    cmd, force, confirm, srcKind, finalDest, fs, start, ledgers, pass,
                    relpaths, shas, src_shas, src_checksums_hash, dest_shas,
                    dest_checksums_hash, verification_summary, manifest,
                    failures >>

CopyFile ==
    /\ pc = "copy"
    /\ i < Len(files_to_copy)
    /\ LET rel == files_to_copy[i + 1]
           c   == fs[<<"S", rel>>]
       IN  \/ \* os.makedirs of the destination directory raises
              /\ failures < MaxFailures
              /\ failures' = failures + 1
              /\ Exit(2)
              /\ UNCHANGED << fs, dirs, copied_relpaths, i >>
           \/ /\ dirs' = MakeDirs(Dirname(rel))
              /\ i' = i + 1
              /\ UNCHANGED << pc, rc >>
              /\ \/ \* the file is copied
                    /\ c # NoFile
                    /\ fs' = [fs EXCEPT ![<<finalDest, rel>>] = CopiedContent(rel)]
                    /\ copied_relpaths' = Append(copied_relpaths, rel)
                    /\ failures' = failures
                 \/ \* an open raises: nothing is written
                    /\ c = NoFile \/ failures < MaxFailures
                    /\ failures' = IF c = NoFile THEN failures ELSE failures + 1
                    /\ UNCHANGED << fs, copied_relpaths >>
                 \/ \* a read or write raises after the destination was opened
                    /\ c # NoFile
                    /\ failures < MaxFailures
                    /\ failures' = failures + 1
                    /\ fs' = [fs EXCEPT ![<<finalDest, rel>>] = 0]
                    /\ UNCHANGED copied_relpaths
    /\ UNCHANGED << atomize, seed_csv, first_run,
                    reloaded, tampered, clock, runs, dest_manifests,
                    cmd, force, confirm, srcKind, dpKind, finalDest, start, ledgers, pass,
                    relpaths, shas, src_shas, src_checksums_hash, files_to_copy,
                    dest_shas, dest_checksums_hash, verification_summary,
                    manifest >>

CopyDone_Early ==
    /\ pc = "copy"
    /\ i <= Len(files_to_copy)
    /\ IF cmd = "copy" THEN
           /\ Exit(0)
           /\ UNCHANGED << pass, relpaths >>
       ELSE
           /\ pass' = "dest"
           /\ relpaths' = copied_relpaths
           /\ pc' = "hash_open"
           /\ rc' = rc
    /\ UNCHANGED << atomize, seed_csv, first_run,
                    reloaded, tampered, clock, runs, dest_manifests,
                    cmd, force, confirm, srcKind, dpKind, finalDest, fs, dirs, start,
                    ledgers, shas, i, src_shas, src_checksums_hash,
                    files_to_copy, copied_relpaths, dest_shas,
                    dest_checksums_hash, verification_summary, manifest,
                    failures >>

\* The copy loop is over: copy_include_top_with_progress returns.
CopyDone ==
    /\ pc = "copy"
    /\ i = Len(files_to_copy)
    /\ IF cmd = "copy" THEN
           /\ Exit(0)
           /\ UNCHANGED << pass, relpaths >>
       ELSE
           /\ pass' = "dest"
           /\ relpaths' = copied_relpaths
           /\ pc' = "hash_open"
           /\ rc' = rc
    /\ UNCHANGED << atomize, seed_csv, first_run,
                    reloaded, tampered, clock, runs, dest_manifests,
                    cmd, force, confirm, srcKind, dpKind, finalDest, fs, dirs, start,
                    ledgers, shas, i, src_shas, src_checksums_hash,
                    files_to_copy, copied_relpaths, dest_shas,
                    dest_checksums_hash, verification_summary, manifest,
                    failures >>

(***************************************************************************)
(* run_all_flow: comparison, manifest, exit status.                        *)
(***************************************************************************)
Compare ==
    /\ pc = "compare"
    /\ verification_summary' = << compare_shas(src_shas, dest_shas) >>
    /\ pc' = "manifest"
    /\ UNCHANGED << atomize, seed_csv, first_run,
                    reloaded, tampered, clock, runs, dest_manifests,
                    cmd, force, confirm, srcKind, dpKind, finalDest, fs, dirs, start,
                    ledgers, rc, pass, relpaths, shas, i, src_shas,
                    src_checksums_hash, files_to_copy, copied_relpaths,
                    dest_shas, dest_checksums_hash, manifest, failures >>

WriteManifest ==
    /\ pc = "manifest"
    /\ manifest' = << BuildManifest(list_files_recursive(finalDest), dest_shas,
                                    verification_summary[1], src_checksums_hash,
                                    dest_checksums_hash) >>
    /\ pc' = "status"
    /\ UNCHANGED << atomize, seed_csv, first_run,
                    reloaded, tampered, clock, runs, dest_manifests,
                    cmd, force, confirm, srcKind, dpKind, finalDest, fs, dirs, start,
                    ledgers, rc, pass, relpaths, shas, i, src_shas,
                    src_checksums_hash, files_to_copy, copied_relpaths,
                    dest_shas, dest_checksums_hash, verification_summary,
                    failures >>

\* mismatched + missing_in_destination + extra_in_destination
Problems(summary) ==
    summary.mismatched + summary.missing_in_destination
        + summary.extra_in_destination

FinalStatus ==
    /\ pc = "status"
    /\ Exit(IF Problems(verification_summary[1]) = 0 THEN 0 ELSE 3)
    /\ UNCHANGED << atomize, seed_csv, first_run,
                    reloaded, tampered, clock, runs, dest_manifests,
                    cmd, force, confirm, srcKind, dpKind, finalDest, fs, dirs, start,
                    ledgers, pass, relpaths, shas, i, src_shas,
                    src_checksums_hash, files_to_copy, copied_relpaths,
                    dest_shas, dest_checksums_hash, verification_summary,
                    manifest, failures >>

(***************************************************************************)
(* Specifications.                                                         *)
(***************************************************************************)
Next ==
    \/ RunAllFlowStart
    \/ HashOpen
    \/ HashFile
    \/ SourcePassDone
    \/ CopyBegin
    \/ CopyFile
    \/ CopyDone
    \/ DestPassDone
    \/ Compare
    \/ WriteManifest
    \/ FinalStatus

Spec == Init /\ [][Next]_vars

\* The comparator and the manifest builder on arbitrary digest mappings.
InitCompare ==
    /\ cmd = "all"
    /\ force = FALSE
    /\ srcKind = "dir"
    /\ dpKind = "dir"
    /\ finalDest = "D"
    /\ fs = [loc \in Roots \X Paths |-> NoFile]
    /\ dirs = { <<"S", RootDir>>, <<"D", RootDir>> }
    /\ start = [fs |-> fs, dirs |-> dirs, dpKind |-> dpKind]
    /\ pc = "compare"
    /\ src_shas \in Mappings
    /\ dest_shas \in Mappings
    /\ InitLocals
    /\ InitTools

NextCompare ==
    \/ Compare
    \/ WriteManifest
    \/ FinalStatus

SpecCompare == InitCompare /\ [][NextCompare]_vars

(***************************************************************************)
(* Properties.                                                             *)
(***************************************************************************)
Range(seq) == { seq[n] : n \in 1..Len(seq) }

\* A path whose file name starts with "checksums_source_", whatever its depth.
HasSourceLedgerName(p) ==
    /\ Len(p[Len(p)]) >= 2
    /\ p[Len(p)][1] = "checksums_"
    /\ p[Len(p)][2] = "source_"

ValidArgs == srcKind = "dir" /\ start.dpKind = "dir"

\* Nothing was created, written or changed since the command was started.
NoSideEffect ==
    /\ fs = start.fs
    /\ dirs = start.dirs
    /\ dpKind = start.dpKind
    /\ ledgers = [source |-> << >>, dest |-> << >>]
    /\ manifest = << >>

\* C1: in the 'all' flow a manifest says PASS only if every file enumerated
\* under the source, other than the excluded source-ledger files, was copied
\* and has a digest on both sides, the two being equal.
C1_PassOnlyIfAllVerified ==
    (cmd = "all" /\ manifest # << >> /\ manifest[1].result = "PASS") =>
        \A p \in DOMAIN src_shas :
            ~ HasSourceLedgerName(p) =>
                /\ p \in Range(copied_relpaths)
                /\ src_shas[p] # None
                /\ p \in DOMAIN dest_shas
                /\ dest_shas[p] # None
                /\ src_shas[p] = dest_shas[p]

ContractClass(src, dest, k) ==
    IF k \notin DOMAIN src THEN "extra_in_destination"
    ELSE IF k \notin DOMAIN dest THEN "missing_in_destination"
    ELSE IF src[k] # None /\ src[k] = dest[k] THEN "matched"
    ELSE "mismatched"

ContractSet(src, dest, cat) ==
    { k \in (DOMAIN src) \cup (DOMAIN dest) : ContractClass(src, dest, k) = cat }

\* C3: compare_shas puts every path of the union of the key sets in exactly
\* the category of the contract: extra if absent from src, missing if absent
\* from dest, matched if in both with identical digests, mismatched otherwise.
C3_ClassifiesByContract ==
    verification_summary # << >> =>
        LET v == verification_summary[1]
        IN  /\ Range(v.extra_sample) = ContractSet(src_shas, dest_shas, "extra_in_destination")
            /\ Range(v.missing_sample) = ContractSet(src_shas, dest_shas, "missing_in_destination")
            /\ Range(v.mismatch_sample) = ContractSet(src_shas, dest_shas, "mismatched")
            /\ v.matched = Cardinality(ContractSet(src_shas, dest_shas, "matched"))
            /\ v.extra_in_destination = Len(v.extra_sample)
            /\ v.missing_in_destination = Len(v.missing_sample)
            /\ v.mismatched = Len(v.mismatch_sample)

\* The paths that carry None in a mapping.
SentinelPaths(m) == { k \in DOMAIN m : m[k] = None }

\* C4: a path with None on either side, or on both, is never counted as
\* matched and is always in one of the three non-matched categories.
C4_SentinelNeverMatchedAlwaysCounted ==
    verification_summary # << >> =>
        LET v == verification_summary[1]
            sentinel == SentinelPaths(src_shas) \cup SentinelPaths(dest_shas)
        IN  /\ sentinel \subseteq
                   Range(v.mismatch_sample) \cup Range(v.missing_sample)
                       \cup Range(v.extra_sample)
            /\ v.matched <=
                   Cardinality(((DOMAIN src_shas) \cup (DOMAIN dest_shas)) \ sentinel)

\* C5: the four counts add up to the number of paths in the union of the key
\* sets of the two mappings.
C5_CountsSumToUnion ==
    verification_summary # << >> =>
        LET v == verification_summary[1]
        IN  v.matched + v.mismatched + v.missing_in_destination
                + v.extra_in_destination
            = Cardinality((DOMAIN src_shas) \cup (DOMAIN dest_shas))

\* The summary says: n matched, nothing else.
AllMatched(v, n) ==
    /\ v.matched = n
    /\ v.mismatched = 0
    /\ v.missing_in_destination = 0
    /\ v.extra_in_destination = 0

\* C6 as stated: compare(A, A) of any non-empty mapping A has matched = |A| and
\* the other three counts zero.
C6_SelfCompareOriginal ==
    (verification_summary # << >> /\ src_shas = dest_shas /\ DOMAIN src_shas # {}) =>
        AllMatched(verification_summary[1], Cardinality(DOMAIN src_shas))

\* C6 as amended: compare(A, A) of any non-empty mapping A in which every path
\* has a digest (no None) has matched = |A| and the other three counts zero.
C6_SelfCompareOfDigests ==
    ( /\ verification_summary # << >>
      /\ src_shas = dest_shas
      /\ DOMAIN src_shas # {}
      /\ SentinelPaths(src_shas) = {} ) =>
        AllMatched(verification_summary[1], Cardinality(DOMAIN src_shas))

\* A mapping of three digests, two of them different, compared with itself.
C6_Witness ==
    /\ verification_summary # << >>
    /\ src_shas = dest_shas
    /\ DOMAIN src_shas = Paths
    /\ SentinelPaths(src_shas) = {}
    /\ src_shas[FileA] # src_shas[FileSubB]
    /\ verification_summary[1].matched = 3

\* C7: a copy started (by 'all' or by 'copy') when the destination root exists
\* and no overwrite consent was given (no --force, no "YES") ends in an error
\* and writes nothing.
C7_NoConsentNoWrite ==
    ( /\ ValidArgs
      /\ <<finalDest, RootDir>> \in start.dirs
      /\ ~ force
      /\ confirm # "YES" ) =>
        /\ NoSideEffect
        /\ pc = "done" => rc \notin {NoRc, 0}

\* C8: when the source or the destination parent is missing or not a
\* directory, 'all' and 'copy' end in an error and nothing is created, written
\* or copied.
C8_InvalidPathNoSideEffect ==
    ~ ValidArgs =>
        /\ NoSideEffect
        /\ pc = "done" => rc \notin {NoRc, 0}

\* C9: at every point of a run on a valid source and destination parent, also
\* when final_dest is the source root itself, every file the source held at
\* the start is still there with the same content.
C9_SourceUntouched ==
    ValidArgs =>
        \A p \in Paths :
            start.fs[<<"S", p>>] # NoFile => fs[<<"S", p>>] = start.fs[<<"S", p>>]

\* C10: a source file whose name starts with checksums_source_, at any depth,
\* is never in the list of copied paths and never a key of the destination
\* digest mapping.
C10_SourceLedgerNeverCopied ==
    \A p \in Range(SortedPaths) :
        HasSourceLedgerName(p) =>
            /\ p \notin Range(files_to_copy)
            /\ p \notin Range(copied_relpaths)
            /\ p \notin DOMAIN dest_shas

\* A finished 'all' run on a source that holds an old ledger in sub/ and the
\* ledger of this run at the top, with files copied and hashed at the
\* destination.
C10_Witness ==
    /\ cmd = "all"
    /\ pc = "done"
    /\ fs[<<"S", FileSubOld>>] # NoFile
    /\ ledgers.source # << >>
    /\ FileSubB \in Range(copied_relpaths)
    /\ FileSubB \in DOMAIN dest_shas

\* C11: a file whose transfer fails, also by the failure to create its
\* destination directory, does not end the copy: the loop is left only after
\* the last file of files_to_copy, a failed file is not added to the copied
\* list and a transferred file is.
C11_CopyFailureSkipsAndContinues ==
    [][ pc = "copy" =>
          /\ pc' # "copy" => i = Len(files_to_copy)
          /\ failures' # failures => copied_relpaths' = copied_relpaths
          /\ (pc' = "copy" /\ failures' = failures) =>
                 copied_relpaths' = Append(copied_relpaths, files_to_copy[i + 1])
      ]_vars

\* The files of the copy plan whose transfer failed although their source
\* digest was computed.
FailedCopiesWithDigest ==
    { p \in Range(files_to_copy) \ Range(copied_relpaths) :
        p \in DOMAIN src_shas /\ src_shas[p] # None }

\* C12: in the full flow every source file whose copy failed and whose source
\* digest was computed is listed as missing_in_destination by the final
\* comparison, so that count is at least the number of those files.
C12_FailedCopiesAreMissing ==
    (cmd = "all" /\ verification_summary # << >>) =>
        /\ FailedCopiesWithDigest \subseteq Range(verification_summary[1].missing_sample)
        /\ verification_summary[1].missing_in_destination
               >= Cardinality(FailedCopiesWithDigest)

C12_Witness ==
    /\ cmd = "all"
    /\ pc = "done"
    /\ manifest # << >>
    /\ FailedCopiesWithDigest # {}
    /\ Range(copied_relpaths) # {}

\* The paths for which a digest pass recorded the sentinel: the computation
\* of the digest failed on the source side or on the destination side.
HashFailedPaths ==
    { p \in (DOMAIN src_shas) \cup (DOMAIN dest_shas) :
        \/ p \in DOMAIN src_shas /\ src_shas[p] = None
        \/ p \in DOMAIN dest_shas /\ dest_shas[p] = None }

\* C13: a failed digest computation does not end the digest pass (the file is
\* recorded with the sentinel and the pass goes on to the next file), and
\* the comparison classifies every such file as mismatched or as
\* missing_in_destination.
C13_HashFailureIsMismatchOrMissing ==
    /\ pc = "hash" => DOMAIN shas = { relpaths[n] : n \in 1..i }
    /\ (cmd = "all" /\ verification_summary # << >>) =>
           HashFailedPaths \subseteq
               Range(verification_summary[1].mismatch_sample)
                   \cup Range(verification_summary[1].missing_sample)

\* The lines of a ledger that are not header lines.
DataLines(lines) == SelectSeq(lines, LAMBDA ln : ln[1] # <<"#">>)

\* The ledger lines of the first n files of rels, as the mapping m has them.
ExpectedLines(m, rels, n) ==
    [k \in 1..n |->
        << IF m[rels[k]] = None THEN <<"ERROR_NO_SHA">> ELSE m[rels[k]],
           rels[k] >>]

FileSpace == << <<"my", " ", "file">> >>

\* A file whose name begins with the marker character: "*c".
FileStar == << <<"*", "c">> >>

SortedLedgerPaths == << FileStar, FileA, FileSpace, FileSubB >>

IsSpace(t) == t \in { " ", "\n", "\t" }

RECURSIVE JoinNames(_)
\* rel_path: the names of the path joined with "/".
JoinNames(p) ==
    IF Len(p) = 1 THEN p[1]
    ELSE p[1] \o << "/" >> \o JoinNames(Tail(p))

\* The hexadecimal text of a digest, or the text written for None.
ShaText(sha) ==
    IF sha = ERROR_NO_SHA THEN << "ERROR_NO_SHA" >>
    ELSE << "sha256", ToString(sha[2]) >>

\* The text of one ledger line: f"{sha}  *{rel}\n" for a file, the comment
\* text for a header line.
LineText(line) ==
    IF line[1] = << "#" >> THEN << "#", " " >> \o line[2] \o << "\n" >>
    ELSE ShaText(line[1]) \o << " ", " ", "*" >> \o JoinNames(line[2])
             \o << "\n" >>

RECURSIVE Strip(_)
\* line.strip()
Strip(text) ==
    IF text = << >> THEN text
    ELSE IF IsSpace(Head(text)) THEN Strip(Tail(text))
    ELSE IF IsSpace(text[Len(text)]) THEN Strip(SubSeq(text, 1, Len(text) - 1))
    ELSE text

\* The length of the run of non-whitespace tokens text begins with.
RunLen(text) ==
    IF \E k \in 1..Len(text) : IsSpace(text[k])
    THEN (CHOOSE k \in 1..Len(text) :
             IsSpace(text[k]) /\ \A j \in 1..(k - 1) : ~ IsSpace(text[j])) - 1
    ELSE Len(text)

RECURSIVE Split(_)
\* text.split(): the maximal runs without whitespace.
Split(text) ==
    IF text = << >> THEN << >>
    ELSE IF IsSpace(Head(text)) THEN Split(Tail(text))
    ELSE << SubSeq(text, 1, RunLen(text)) >>
             \o Split(SubSeq(text, RunLen(text) + 1, Len(text)))

\* The body of the reader's loop for one line of text: the mapping m with
\* the line's entry added, m itself for a line the reader passes over.
ReadLine(m, text) ==
    IF text = << >> \/ Head(text) = "#" THEN m
    ELSE LET parts == Split(Strip(text))
         IN  IF Len(parts) >= 2
             THEN LET sha == parts[1]
                      rel == parts[Len(parts)]
                  IN  Put(m, IF Head(rel) = "*" THEN Tail(rel) ELSE rel, sha)
             ELSE m

RECURSIVE ReadLines(_, _)
\* The reader's loop over the lines of a ledger file, from the mapping m.
ReadLines(m, lines) ==
    IF lines = << >> THEN m
    ELSE ReadLines(ReadLine(m, LineText(Head(lines))), Tail(lines))

\* The trees whose ledger is written and read back: any of four files, each
\* with any content or absent.
LedgerTrees == [Range(SortedLedgerPaths) -> {NoFile} \cup Contents]

\* A ledger is written for a tree ('checksums', or 'verify' for a folder
\* without a ledger) ...
InitLedger ==
    /\ cmd = "verify"
    /\ force = FALSE
    /\ srcKind = "dir"
    /\ dpKind = "dir"
    /\ finalDest = "D"
    /\ \E t \in LedgerTrees :
          /\ fs = [loc \in Roots \X Range(SortedLedgerPaths) |->
                     IF loc[1] = "S" THEN t[loc[2]] ELSE NoFile]
          /\ relpaths = SelectSeq(SortedLedgerPaths, LAMBDA p : t[p] # NoFile)
    /\ dirs = { <<"S", RootDir>>, <<"S", SubDir>> }
    /\ start = [fs |-> fs, dirs |-> dirs, dpKind |-> dpKind]
    /\ pc = "hash_open"
    /\ src_shas = EmptyMap
    /\ dest_shas = EmptyMap
    /\ confirm = ""
    /\ ledgers = [source |-> << >>, dest |-> << >>]
    /\ rc = NoRc
    /\ pass = "source"
    /\ shas = EmptyMap
    /\ i = 0
    /\ src_checksums_hash = None
    /\ files_to_copy = << >>
    /\ copied_relpaths = << >>
    /\ dest_checksums_hash = None
    /\ verification_summary = << >>
    /\ manifest = << >>
    /\ failures = 0
    /\ reloaded = << >>
    /\ tampered = {}
    /\ clock = 0
    /\ runs = << >>
    /\ dest_manifests = [s \in Stamps |-> 0]
    /\ first_run = << >>
    /\ InitTools

\* ... and 'verify' reads the finished ledger back into src_shas.
VerifyLoad ==
    /\ cmd = "verify"
    /\ pc = "hash"
    /\ pass = "source"
    /\ i = Len(relpaths)
    /\ reloaded' = << ReadLines(EmptyMap, ledgers["source"]) >>
    /\ pc' = "done"
    /\ UNCHANGED << atomize, seed_csv, first_run,
                    tampered, clock, runs, dest_manifests,
                    cmd, force, confirm, srcKind, dpKind, finalDest, fs, dirs,
                    start, ledgers, rc, pass, relpaths, shas, i, src_shas,
                    src_checksums_hash, files_to_copy, copied_relpaths,
                    dest_shas, dest_checksums_hash, verification_summary,
                    manifest, failures >>

NextLedger ==
    \/ HashOpen
    \/ HashFile
    \/ VerifyLoad

SpecLedger == InitLedger /\ [][NextLedger]_vars

\* The digest mapping m as the program holds it: keyed by the text of the
\* relative path, with the hexadecimal text of the digest as value.
AsText(m) ==
    [t \in { JoinNames(p) : p \in DOMAIN m } |->
        ShaText(m[CHOOSE p \in DOMAIN m : JoinNames(p) = t])]

\* C15: when every file of the tree was hashed successfully, the mapping
\* read back from the ledger is the mapping the digest pass returned: the
\* same keys, the same digest for every key.
C15_LedgerRoundTrip ==
    (reloaded # << >> /\ \A p \in DOMAIN shas : shas[p] # None) =>
        reloaded[1] = AsText(shas)

\* The stage a run is in: 1 the source digest pass, 2 the copy, 3 the
\* destination digest pass, 4 the comparison, 5 the manifest emission.
Stage(at, which) ==
    CASE at = "start" -> 0
      [] at \in {"hash_open", "hash"} /\ which = "source" -> 1
      [] at \in {"copy_begin", "copy"} -> 2
      [] at \in {"hash_open", "hash"} /\ which = "dest" -> 3
      [] at = "compare" -> 4
      [] at = "manifest" -> 5
      [] at = "status" -> 6
      [] at = "done" -> 7

\* A step of a full run goes to no earlier stage, and to the next stage only
\* when the stage it leaves has processed all of its input and its output
\* is there.
StageStep ==
    cmd = "all" =>
        /\ Stage(pc', pass') >= Stage(pc, pass)
        /\ pc' # "done" => Stage(pc', pass') <= Stage(pc, pass) + 1
        /\ (pc' # "done" /\ Stage(pc', pass') = Stage(pc, pass) + 1) =>
              CASE Stage(pc, pass) = 0 -> TRUE
                [] Stage(pc, pass) = 1 ->
                      /\ pc = "hash" /\ i = Len(relpaths)
                      /\ DOMAIN src_shas' = Range(relpaths)
                [] Stage(pc, pass) = 2 ->
                      /\ pc = "copy" /\ i = Len(files_to_copy)
                      /\ relpaths' = copied_relpaths
                [] Stage(pc, pass) = 3 ->
                      /\ pc = "hash" /\ i = Len(relpaths)
                      /\ DOMAIN dest_shas' = Range(copied_relpaths)
                [] Stage(pc, pass) = 4 ->
                      verification_summary'
                          = << compare_shas(src_shas, dest_shas) >>
                [] Stage(pc, pass) = 5 -> manifest' # << >>
                [] Stage(pc, pass) = 6 -> FALSE
        /\ manifest' # manifest =>
              /\ pc = "manifest"
              /\ verification_summary # << >>
              /\ DOMAIN dest_shas = Range(copied_relpaths)

\* A manifest exists only when every stage has completed; a run that ended
\* early (exit status 2 or 4) has left none.
ManifestOnlyAtEnd ==
    manifest # << >> =>
        /\ pc \in {"status", "done"}
        /\ rc \in {NoRc, 0, 3}
        /\ verification_summary = << compare_shas(src_shas, dest_shas) >>

\* C16: within one run the stages execute in the order source digest pass,
\* copy, destination digest pass, comparison, manifest emission; no stage
\* starts before its predecessor has finished, and a manifest is written
\* only after all earlier stages completed.
C16_StagesInOrder == [][StageStep]_vars /\ []ManifestOnlyAtEnd

\* A full run that copied two files has written its manifest.
C16_Witness ==
    /\ cmd = "all"
    /\ pc = "done"
    /\ manifest # << >>
    /\ Len(copied_relpaths) = 2

\* C17: with a valid source, a valid destination parent and consent where
\* it is asked for, a full run ends only after it has written its manifest,
\* whatever per-file hash and copy failures occurred.
C17_FullFlowAlwaysWritesManifest ==
    (cmd = "all" /\ pc = "done" /\ ValidArgs /\ rc # 4) => manifest # << >>

(***************************************************************************)
(* Runs of the full flow, one after the other, into one destination root.  *)
(* A run takes its stamp from the wall clock when it starts and writes     *)
(* manifest_<stamp>.json when it ends.                                     *)
(***************************************************************************)
InitRuns ==
    /\ cmd = "all"
    /\ force = TRUE
    /\ srcKind = "dir"
    /\ dpKind = "dir"
    /\ finalDest = "D"
    /\ fs = [loc \in Roots \X Paths |-> NoFile]
    /\ dirs = { <<"S", RootDir>>, <<"D", RootDir>> }
    /\ start = [fs |-> fs, dirs |-> dirs, dpKind |-> dpKind]
    /\ pc = "start"
    /\ src_shas = EmptyMap
    /\ dest_shas = EmptyMap
    /\ InitLocals
    /\ InitTools

\* Time passes.
Tick ==
    /\ clock < MaxClock
    /\ clock' = clock + 1
    /\ UNCHANGED << atomize, seed_csv, first_run,
                    reloaded, tampered, runs, dest_manifests,
                    cmd, force, confirm, srcKind, dpKind, finalDest, fs, dirs,
                    start, ledgers, pc, rc, pass, relpaths, shas, i, src_shas,
                    src_checksums_hash, files_to_copy, copied_relpaths,
                    dest_shas, dest_checksums_hash, verification_summary,
                    manifest, failures >>

\* stamp, created_iso = now_stamp(): a run starts and takes its stamp.
RunBegin ==
    /\ pc = "start"
    /\ Len(runs) < MaxRuns
    /\ runs' = Append(runs, strftime(clock))
    /\ pc' = "manifest"
    /\ UNCHANGED << atomize, seed_csv, first_run,
                    reloaded, tampered, clock, dest_manifests,
                    cmd, force, confirm, srcKind, dpKind, finalDest, fs, dirs,
                    start, ledgers, rc, pass, relpaths, shas, i, src_shas,
                    src_checksums_hash, files_to_copy, copied_relpaths,
                    dest_shas, dest_checksums_hash, verification_summary,
                    manifest, failures >>

\* write_manifest: open(manifest_path, "w") under the run's stamp; the file
\* then holds the manifest of this run, the Len(runs)-th.
RunWriteManifest ==
    /\ pc = "manifest"
    /\ runs # << >>
    /\ dest_manifests' = [dest_manifests EXCEPT ![runs[Len(runs)]] = Len(runs)]
    /\ pc' = "start"
    /\ UNCHANGED << atomize, seed_csv, first_run,
                    reloaded, tampered, clock, runs,
                    cmd, force, confirm, srcKind, dpKind, finalDest, fs, dirs,
                    start, ledgers, rc, pass, relpaths, shas, i, src_shas,
                    src_checksums_hash, files_to_copy, copied_relpaths,
                    dest_shas, dest_checksums_hash, verification_summary,
                    manifest, failures >>

NextRuns ==
    \/ Tick
    \/ RunBegin
    \/ RunWriteManifest

SpecRuns == InitRuns /\ [][NextRuns]_vars

\* C18: a run never overwrites the manifest an earlier run wrote: the file
\* name its stamp gives is the name of no manifest already present.
C18_ManifestNeverOverwritten ==
    [][ \A s \in Stamps :
          dest_manifests[s] # 0 => dest_manifests'[s] = dest_manifests[s]
      ]_vars

\* The files the source tree held when the run started.
SourceFilesAtStart == { p \in Paths : start.fs[<<"S", p>>] # NoFile }

\* The destination root held no file when the run started.
DestEmptyAtStart == \A p \in Paths : start.fs[<<"D", p>>] = NoFile

\* C19: a full run that copies a tree of N files into an empty destination
\* without any I/O failure compares to matched = N and no mismatched,
\* missing or extra path.
C19_CleanCopyAllMatched ==
    ( /\ cmd = "all"
      /\ finalDest = "D"
      /\ DestEmptyAtStart
      /\ failures = 0
      /\ tampered = {}
      /\ verification_summary # << >> ) =>
        /\ verification_summary[1].matched = Cardinality(SourceFilesAtStart)
        /\ verification_summary[1].mismatched = 0
        /\ verification_summary[1].missing_in_destination = 0
        /\ verification_summary[1].extra_in_destination = 0

(***************************************************************************)
(* A full run during which somebody else changes a copied file of the      *)
(* destination between the copy and the destination digest pass.           *)
(***************************************************************************)
Tamper ==
    /\ cmd = "all"
    /\ finalDest = "D"
    /\ pc = "hash_open"
    /\ pass = "dest"
    /\ tampered = {}
    /\ \E p \in Range(copied_relpaths), c \in Contents :
          /\ c # fs[<<"D", p>>]
          /\ fs' = [fs EXCEPT ![<<"D", p>>] = c]
          /\ tampered' = {p}
    /\ UNCHANGED << atomize, seed_csv, first_run,
                    reloaded, clock, runs, dest_manifests,
                    cmd, force, confirm, srcKind, dpKind, finalDest, dirs,
                    start, ledgers, pc, rc, pass, relpaths, shas, i, src_shas,
                    src_checksums_hash, files_to_copy, copied_relpaths,
                    dest_shas, dest_checksums_hash, verification_summary,
                    manifest, failures >>

NextTamper ==
    \/ Next
    \/ Tamper

SpecTamper == Init /\ [][NextTamper]_vars

\* C20: when the content of exactly one destination file is changed after a
\* copy without failures and before the destination digest pass, the
\* comparison reports 1 mismatched, 0 missing_in_destination and 0
\* extra_in_destination.
C20_OneChangedFileOneMismatch ==
    ( /\ cmd = "all"
      /\ tampered # {}
      /\ failures = 0
      /\ verification_summary # << >> ) =>
        /\ verification_summary[1].mismatched = 1
        /\ verification_summary[1].mismatch_sample = << CHOOSE p \in tampered : TRUE >>
        /\ verification_summary[1].missing_in_destination = 0
        /\ verification_summary[1].extra_in_destination = 0

(***************************************************************************)
(* A full run during which somebody else deletes a copied file of the      *)
(* destination between the copy and the destination digest pass.           *)
(***************************************************************************)
Delete ==
    /\ cmd = "all"
    /\ finalDest = "D"
    /\ pc = "hash_open"
    /\ pass = "dest"
    /\ tampered = {}
    /\ \E p \in Range(copied_relpaths) :
          /\ fs[<<"D", p>>] # NoFile
          /\ fs' = [fs EXCEPT ![<<"D", p>>] = NoFile]
          /\ tampered' = {p}
    /\ UNCHANGED << atomize, seed_csv, first_run,
                    reloaded, clock, runs, dest_manifests,
                    cmd, force, confirm, srcKind, dpKind, finalDest, dirs,
                    start, ledgers, pc, rc, pass, relpaths, shas, i, src_shas,
                    src_checksums_hash, files_to_copy, copied_relpaths,
                    dest_shas, dest_checksums_hash, verification_summary,
                    manifest, failures >>

NextDelete ==
    \/ Next
    \/ Delete

SpecDelete == Init /\ [][NextDelete]_vars

\* C21: when exactly one destination file is deleted after a copy without
\* failures and before the destination digest pass, the comparison reports
\* exactly 1 missing_in_destination, and it is that path.
C21_OneDeletedFileOneMissing ==
    ( /\ cmd = "all"
      /\ tampered # {}
      /\ failures = 0
      /\ verification_summary # << >> ) =>
        /\ verification_summary[1].missing_in_destination = 1
        /\ verification_summary[1].missing_sample
              = << CHOOSE p \in tampered : TRUE >>

\* A path whose file name is that of a digest ledger the pipeline writes:
\* checksums_source_<stamp>.txt or checksums_dest_<stamp>.txt.
HasLedgerName(p) ==
    /\ Len(p[Len(p)]) >= 2
    /\ p[Len(p)][1] = "checksums_"
    /\ p[Len(p)][2] \in { "source_", "dest_" }

\* C22: the ledgers the pipeline writes, in this or an earlier run, are not
\* payload: none is a key of the source digest mapping, none is an entry of
\* the manifest's file inventory (which file_count counts).
C22_LedgersAreNotPayload ==
    /\ \A p \in DOMAIN src_shas : ~ HasLedgerName(p)
    /\ manifest # << >> =>
          /\ \A n \in 1..Len(manifest[1].files) :
                ~ HasLedgerName(manifest[1].files[n].rel_path)
          /\ manifest[1].file_count
                = Cardinality({ p \in Paths :
                                  Exists(finalDest, p) /\ ~ HasLedgerName(p) })

(***************************************************************************)
(* The full flow run a second time on the same source into the same        *)
(* destination parent.  The finished run becomes the earlier run: the      *)
(* source ledger it wrote stays in the source tree as a file named         *)
(* checksums_source_<earlier stamp>.txt, for which the model has the one   *)
(* path FileSubOld; the ledgers and the manifest of the new run are not    *)
(* written yet.  The destination ledger and manifest of the finished run   *)
(* stay in the destination root too; no digest pass reads them and the     *)
(* model drops them.                                                       *)
(***************************************************************************)
Rerun ==
    /\ cmd = "all"
    /\ finalDest = "D"
    /\ pc = "done"
    /\ rc \in {0, 3}
    /\ first_run = << >>
    /\ first_run' = verification_summary
    /\ fs' = [fs EXCEPT ![<<"S", FileSubOld>>] = 1]
    /\ dirs' = dirs \cup { <<"S", SubDir>> }
    /\ start' = [fs |-> fs', dirs |-> dirs', dpKind |-> dpKind]
    /\ pc' = "start"
    /\ rc' = NoRc
    /\ confirm' = ""
    /\ ledgers' = [source |-> << >>, dest |-> << >>]
    /\ pass' = "source"
    /\ relpaths' = << >>
    /\ shas' = EmptyMap
    /\ i' = 0
    /\ src_shas' = EmptyMap
    /\ dest_shas' = EmptyMap
    /\ src_checksums_hash' = None
    /\ dest_checksums_hash' = None
    /\ files_to_copy' = << >>
    /\ copied_relpaths' = << >>
    /\ verification_summary' = << >>
    /\ manifest' = << >>
    /\ UNCHANGED << atomize, seed_csv,
                    reloaded, tampered, clock, runs, dest_manifests,
                    cmd, force, srcKind, dpKind, finalDest, failures >>

NextRerun ==
    \/ Next
    \/ Rerun

SpecRerun == Init /\ [][NextRerun]_vars

\* matched, mismatched, missing_in_destination, extra_in_destination
Counts(summary) ==
    << summary.matched, summary.mismatched, summary.missing_in_destination,
       summary.extra_in_destination >>

\* C23: a second full run on the same source with unchanged payload, into
\* the same destination parent, with consent and without I/O failures,
\* ends with the same counts and the same verdict as the first run.
C23_RerunSameSummary ==
    ( /\ first_run # << >>
      /\ failures = 0
      /\ verification_summary # << >> ) =>
        /\ Counts(verification_summary[1]) = Counts(first_run[1])
        /\ Verdict(verification_summary[1]) = Verdict(first_run[1])

(***************************************************************************)
(* atomize.py: the packager.  The package root holds some of three         *)
(* top-level items, two files and a folder named *_legacy_*; the model     *)
(* records which directories the program created and which items it moved. *)
(***************************************************************************)
\* The copy pipeline at rest, for the specifications of the other tools.
InitPipelineIdle ==
    /\ cmd = "all"
    /\ force = TRUE
    /\ srcKind = "dir"
    /\ dpKind = "dir"
    /\ finalDest = "D"
    /\ fs = [loc \in Roots \X Paths |-> NoFile]
    /\ dirs = { <<"S", RootDir>>, <<"D", RootDir>> }
    /\ start = [fs |-> fs, dirs |-> dirs, dpKind |-> dpKind]
    /\ pc = "done"
    /\ src_shas = EmptyMap
    /\ dest_shas = EmptyMap
    /\ InitLocals

PipelineVars ==
    << cmd, force, confirm, srcKind, dpKind, finalDest, fs, dirs, start,
       ledgers, pc, rc, pass, relpaths, shas, i, src_shas, src_checksums_hash,
       files_to_copy, copied_relpaths, dest_shas, dest_checksums_hash,
       verification_summary, manifest, failures, reloaded, tampered, clock,
       runs, dest_manifests, first_run >>

SortedItems == << "f1", "f2", "x_legacy_1" >>

\* fnmatch(item.name.lower(), "*_legacy_*") on the items of the model.
IsLegacy(item) == item = "x_legacy_1"

\* data, data/objects, data/metadata, data/submissionDocumentation
CanonicalDirs ==
    { "data", "data/objects", "data/metadata", "data/submissionDocumentation" }

InitAtomize ==
    /\ InitPipelineIdle
    /\ seed_csv = CsvIdle
    /\ \E dr \in BOOLEAN, ex \in BOOLEAN, ch \in {"1", "2"},
          ho \in BOOLEAN, its \in SUBSET Range(SortedItems) :
          atomize = [ pc          |-> "start",
                      dry_run     |-> dr,
                      execute     |-> ex,
                      choice      |-> ch,
                      had_objects |-> ho,
                      dry         |-> FALSE,
                      items       |-> its,
                      todo        |-> << >>,
                      created     |-> {},
                      moved       |-> {} ]

\* main, from the parsing of the arguments to the choice of the package
\* directory.
AtomizeStart ==
    /\ atomize.pc = "start"
    /\ LET dry == IF atomize.execute THEN FALSE
                  ELSE atomize.dry_run /\ ~ atomize.execute
       IN  atomize' = [atomize EXCEPT
                         !.dry = dry,
                         !.created = IF atomize.choice = "2" /\ ~ dry
                                     THEN {"package_dir"} ELSE {},
                         !.pc = "dirs"]
    /\ UNCHANGED << PipelineVars, seed_csv >>

\* ensure_dir for the four canonical directories.
AtomizeEnsureDirs ==
    /\ atomize.pc = "dirs"
    /\ atomize' = [atomize EXCEPT
                      !.created = IF atomize.dry THEN @ ELSE @ \cup CanonicalDirs,
                      !.pc = "legacy"]
    /\ UNCHANGED << PipelineVars, seed_csv >>

\* source_root/data/objects exists and source_root is the package
\* directory: the top-level items are not moved.
NoBulkMove ==
    /\ atomize.choice = "1"
    /\ atomize.had_objects \/ "data/objects" \in atomize.created

\* The legacy folders are moved into data/submissionDocumentation; then the
\* items to move into data/objects are listed.
AtomizeMoveLegacy ==
    /\ atomize.pc = "legacy"
    /\ LET legacy == { it \in atomize.items : IsLegacy(it) }
           left   == IF atomize.dry THEN atomize.items
                     ELSE atomize.items \ legacy
       IN  atomize' = [atomize EXCEPT
                         !.moved = IF atomize.dry THEN @ ELSE @ \cup legacy,
                         !.items = left,
                         !.todo  = IF NoBulkMove THEN << >>
                                   ELSE SelectSeq(SortedItems,
                                                  LAMBDA it : it \in left),
                         !.pc = "move"]
    /\ UNCHANGED << PipelineVars, seed_csv >>

\* move_or_copy of one top-level item into data/objects.
AtomizeMoveItem ==
    /\ atomize.pc = "move"
    /\ atomize.todo # << >>
    /\ atomize' = [atomize EXCEPT
                      !.moved = IF atomize.dry THEN @
                                ELSE @ \cup { Head(atomize.todo) },
                      !.items = IF atomize.dry THEN @
                                ELSE @ \ { Head(atomize.todo) },
                      !.todo = Tail(atomize.todo)]
    /\ UNCHANGED << PipelineVars, seed_csv >>

\* The metadata row is collected, data/metadata is created, and the call
\* that should write metadata.csv raises TypeError: write_csv_rows is a
\* list local to main there.  Nothing after it is executed.
AtomizeWriteMetadata ==
    /\ atomize.pc = "move"
    /\ atomize.todo = << >>
    /\ atomize' = [atomize EXCEPT
                      !.created = IF atomize.dry THEN @
                                  ELSE @ \cup {"data/metadata"},
                      !.pc = "crashed"]
    /\ UNCHANGED << PipelineVars, seed_csv >>

NextAtomize ==
    \/ AtomizeStart
    \/ AtomizeEnsureDirs
    \/ AtomizeMoveLegacy
    \/ AtomizeMoveItem
    \/ AtomizeWriteMetadata

SpecAtomize == InitAtomize /\ [][NextAtomize]_vars

\* C24: atomize changes the file system only when --execute is given; with
\* --dry-run, or with neither flag, no directory is created and no item is
\* moved.
C24_NoExecuteNoChange ==
    (atomize.pc # "idle" /\ ~ atomize.execute) =>
        /\ atomize.created = {}
        /\ atomize.moved = {}

(***************************************************************************)
(* compare_shas on mappings with more keys than a sample holds.  The keys  *)
(* are the numbers 1..n: key k stands for the path of rank k in sorted     *)
(* order.                                                                  *)
(***************************************************************************)
MaxOver == 2

\* sorted(src_keys.union(dest_keys)) for keys that are ranks.
AllRanks(src, dest) ==
    SelectSeq([k \in 1..(SAMPLE_LIMIT + MaxOver) |-> k],
              LAMBDA k : k \in (DOMAIN src) \cup (DOMAIN dest))

\* The list compare_shas builds for one category, in the order of all_keys.
RankBucket(src, dest, cat) ==
    SelectSeq(AllRanks(src, dest),
              LAMBDA k : Classify(Get(src, k), Get(dest, k)) = cat)

\* compare_shas, for keys that are ranks.
compare_ranked(src, dest) ==
    [ matched                |-> Len(RankBucket(src, dest, "matched")),
      mismatched             |-> Len(RankBucket(src, dest, "mismatched")),
      missing_in_destination |-> Len(RankBucket(src, dest, "missing_in_destination")),
      extra_in_destination   |-> Len(RankBucket(src, dest, "extra_in_destination")),
      mismatch_sample        |-> Take(RankBucket(src, dest, "mismatched"), SAMPLE_LIMIT),
      missing_sample         |-> Take(RankBucket(src, dest, "missing_in_destination"), SAMPLE_LIMIT),
      extra_sample           |-> Take(RankBucket(src, dest, "extra_in_destination"), SAMPLE_LIMIT) ]

\* Mappings over the keys 1..n, all with digests: every key with an even
\* rank (or no key, when all = TRUE) is the same on both sides, the other
\* keys are all of the category cat.
SampleSource(n, cat, all) ==
    [k \in { x \in 1..n : cat # "extra_in_destination" \/ (~ all /\ x % 2 = 0) }
        |-> compute_sha256_stream(0)]

SampleDest(n, cat, all) ==
    [k \in { x \in 1..n : cat # "missing_in_destination" \/ (~ all /\ x % 2 = 0) }
        |-> IF cat = "mismatched" /\ (all \/ k % 2 = 1)
            THEN compute_sha256_stream(1) ELSE compute_sha256_stream(0)]

InitSample ==
    /\ cmd = "all"
    /\ force = FALSE
    /\ srcKind = "dir"
    /\ dpKind = "dir"
    /\ finalDest = "D"
    /\ fs = [loc \in Roots \X Paths |-> NoFile]
    /\ dirs = { <<"S", RootDir>>, <<"D", RootDir>> }
    /\ start = [fs |-> fs, dirs |-> dirs, dpKind |-> dpKind]
    /\ pc = "compare"
    /\ \E n \in 0..(SAMPLE_LIMIT + MaxOver), all \in BOOLEAN,
          cat \in {"mismatched", "missing_in_destination", "extra_in_destination"} :
          /\ src_shas = SampleSource(n, cat, all)
          /\ dest_shas = SampleDest(n, cat, all)
    /\ InitLocals
    /\ InitTools

CompareRanked ==
    /\ pc = "compare"
    /\ verification_summary' = << compare_ranked(src_shas, dest_shas) >>
    /\ pc' = "done"
    /\ UNCHANGED << atomize, seed_csv, first_run,
                    reloaded, tampered, clock, runs, dest_manifests,
                    cmd, force, confirm, srcKind, dpKind, finalDest, fs, dirs,
                    start, ledgers, rc, pass, relpaths, shas, i, src_shas,
                    src_checksums_hash, files_to_copy, copied_relpaths,
                    dest_shas, dest_checksums_hash, manifest, failures >>

NextSample == CompareRanked

SpecSample == InitSample /\ [][NextSample]_vars

\* The keys of a category, by the comparator's contract for keys that have
\* a digest wherever they are present.
RankCategory(cat) ==
    { k \in (DOMAIN src_shas) \cup (DOMAIN dest_shas) :
        CASE cat = "mismatched" ->
                 /\ k \in DOMAIN src_shas /\ k \in DOMAIN dest_shas
                 /\ src_shas[k] # dest_shas[k]
          [] cat = "missing_in_destination" ->
                 k \in DOMAIN src_shas /\ k \notin DOMAIN dest_shas
          [] cat = "extra_in_destination" ->
                 k \notin DOMAIN src_shas /\ k \in DOMAIN dest_shas }

Min(a, b) == IF a < b THEN a ELSE b

\* sample is the first min(|set|, 200) elements of set in increasing order.
IsFirstOf(sample, set) ==
    /\ Len(sample) = Min(Cardinality(set), 200)
    /\ \A j \in 1..Len(sample) : sample[j] \in set
    /\ \A j \in 1..(Len(sample) - 1) : sample[j] < sample[j + 1]
    /\ \A k \in set : \A j \in 1..Len(sample) :
          k < sample[j] => \E h \in 1..(j - 1) : sample[h] = k

\* C25: for each non-matched category the retained sample has length
\* min(count, 200), holds only paths of that category, and is the first
\* paths of that category in sorted order.
C25_SamplesAreFirst200 ==
    verification_summary # << >> =>
        /\ verification_summary[1].mismatched
              = Cardinality(RankCategory("mismatched"))
        /\ verification_summary[1].missing_in_destination
              = Cardinality(RankCategory("missing_in_destination"))
        /\ verification_summary[1].extra_in_destination
              = Cardinality(RankCategory("extra_in_destination"))
        /\ IsFirstOf(verification_summary[1].mismatch_sample,
                     RankCategory("mismatched"))
        /\ IsFirstOf(verification_summary[1].missing_sample,
                     RankCategory("missing_in_destination"))
        /\ IsFirstOf(verification_summary[1].extra_sample,
                     RankCategory("extra_in_destination"))

\* A category with more than 200 paths, among paths of another category.
C25_Witness ==
    /\ verification_summary # << >>
    /\ verification_summary[1].missing_in_destination = 201
    /\ Len(verification_summary[1].missing_sample) = 200
    /\ verification_summary[1].matched = 0

(***************************************************************************)
(* The interactive 'verify' on two folders that both hold a ledger: both   *)
(* ledgers are read back and the two mappings are compared.                *)
(***************************************************************************)
\* The paths of the ledgers of this flow, in sorted order.
VerifyPaths == << FileStar, FileA, FileSubB >>

\* What a digest pass recorded for one file: nothing (the file was not
\* there), ERROR_NO_SHA, or a digest.
LineChoices == { << >>, ERROR_NO_SHA } \cup Digests

\* The ledger write_checksums_file leaves for the files of VerifyPaths with
\* the results r.
LedgerOf(r) ==
    LedgerHeader
        \o [n \in 1..Len(SelectSeq(VerifyPaths, LAMBDA q : r[q] # << >>)) |->
              LedgerLine(r[SelectSeq(VerifyPaths, LAMBDA q : r[q] # << >>)[n]],
                         SelectSeq(VerifyPaths, LAMBDA q : r[q] # << >>)[n])]

InitVerify ==
    /\ cmd = "verify"
    /\ force = FALSE
    /\ srcKind = "dir"
    /\ dpKind = "dir"
    /\ finalDest = "D"
    /\ fs = [loc \in Roots \X Paths |-> NoFile]
    /\ dirs = { <<"S", RootDir>>, <<"D", RootDir>> }
    /\ start = [fs |-> fs, dirs |-> dirs, dpKind |-> dpKind]
    /\ pc = "verify"
    /\ src_shas = EmptyMap
    /\ dest_shas = EmptyMap
    /\ confirm = ""
    /\ \E rs \in [Range(VerifyPaths) -> LineChoices],
          rd \in [Range(VerifyPaths) -> LineChoices] :
          ledgers = [source |-> LedgerOf(rs), dest |-> LedgerOf(rd)]
    /\ rc = NoRc
    /\ pass = "source"
    /\ relpaths = << >>
    /\ shas = EmptyMap
    /\ i = 0
    /\ src_checksums_hash = None
    /\ files_to_copy = << >>
    /\ copied_relpaths = << >>
    /\ dest_checksums_hash = None
    /\ verification_summary = << >>
    /\ manifest = << >>
    /\ failures = 0
    /\ reloaded = << >>
    /\ tampered = {}
    /\ clock = 0
    /\ runs = << >>
    /\ dest_manifests = [s \in Stamps |-> 0]
    /\ first_run = << >>
    /\ InitTools

\* Both ledgers are found and used: src_shas and dest_shas are read back.
VerifyLoadBoth ==
    /\ cmd = "verify"
    /\ pc = "verify"
    /\ src_shas' = ReadLines(EmptyMap, ledgers["source"])
    /\ dest_shas' = ReadLines(EmptyMap, ledgers["dest"])
    /\ pc' = "compare"
    /\ UNCHANGED << atomize, seed_csv, first_run,
                    reloaded, tampered, clock, runs, dest_manifests,
                    cmd, force, confirm, srcKind, dpKind, finalDest, fs, dirs,
                    start, ledgers, rc, pass, relpaths, shas, i,
                    src_checksums_hash, files_to_copy, copied_relpaths,
                    dest_checksums_hash, verification_summary, manifest,
                    failures >>

\* sorted(src_keys.union(dest_keys)) for keys that are path texts.
AllTextKeys(src, dest) ==
    SelectSeq([n \in 1..Len(VerifyPaths) |-> JoinNames(VerifyPaths[n])],
              LAMBDA k : k \in (DOMAIN src) \cup (DOMAIN dest))

TextBucket(src, dest, cat) ==
    SelectSeq(AllTextKeys(src, dest),
              LAMBDA k : Classify(Get(src, k), Get(dest, k)) = cat)

\* compare_shas, for keys that are path texts.
compare_loaded(src, dest) ==
    [ matched                |-> Len(TextBucket(src, dest, "matched")),
      mismatched             |-> Len(TextBucket(src, dest, "mismatched")),
      missing_in_destination |-> Len(TextBucket(src, dest, "missing_in_destination")),
      extra_in_destination   |-> Len(TextBucket(src, dest, "extra_in_destination")),
      mismatch_sample        |-> Take(TextBucket(src, dest, "mismatched"), SAMPLE_LIMIT),
      missing_sample         |-> Take(TextBucket(src, dest, "missing_in_destination"), SAMPLE_LIMIT),
      extra_sample           |-> Take(TextBucket(src, dest, "extra_in_destination"), SAMPLE_LIMIT) ]

\* summary = compare_shas(src_shas, dest_shas), printed.
VerifyCompare ==
    /\ cmd = "verify"
    /\ pc = "compare"
    /\ verification_summary' = << compare_loaded(src_shas, dest_shas) >>
    /\ pc' = "done"
    /\ UNCHANGED << atomize, seed_csv, first_run,
                    reloaded, tampered, clock, runs, dest_manifests,
                    cmd, force, confirm, srcKind, dpKind, finalDest, fs, dirs,
                    start, ledgers, rc, pass, relpaths, shas, i, src_shas,
                    src_checksums_hash, files_to_copy, copied_relpaths,
                    dest_shas, dest_checksums_hash, manifest, failures >>

NextVerify ==
    \/ VerifyLoadBoth
    \/ VerifyCompare

SpecVerify == InitVerify /\ [][NextVerify]_vars

\* The paths a ledger records with ERROR_NO_SHA, and with a digest.
ErrorPaths(role) ==
    { ln[2] : ln \in { x \in Range(ledgers[role]) : x[1] = << "ERROR_NO_SHA" >> } }

DigestLines(role) ==
    { ln \in Range(ledgers[role]) : ln[1] \in Digests }

\* C26: reloading a ledger maps a path whose line is ERROR_NO_SHA to the
\* no-digest sentinel, and the comparison of two reloaded ledgers counts as
\* matched only paths that have the same digest in both: a path recorded
\* as ERROR_NO_SHA in both ledgers is not matched.
C26_ReloadedErrorIsNotMatched ==
    /\ pc \in {"compare", "done"} =>
          /\ \A p \in ErrorPaths("source") : src_shas[JoinNames(p)] = None
          /\ \A p \in ErrorPaths("dest") : dest_shas[JoinNames(p)] = None
    /\ verification_summary # << >> =>
          verification_summary[1].matched
              = Cardinality({ ln \in DigestLines("source") :
                                ln \in DigestLines("dest") })

\* The ledger digest the manifest records for a role.
RecordedLedgerHash(role) ==
    IF role = "source" THEN manifest[1].checksums.source.sha256
    ELSE manifest[1].checksums.destination.sha256

\* When the manifest is written, the digest it records for a ledger is the
\* digest of what the ledger file holds, or null when computing it failed.
RecordedHashIsOfLedger ==
    manifest # << >> =>
        \A role \in {"source", "dest"} :
            /\ RecordedLedgerHash(role) \in { None, << "sha256", ledgers[role] >> }
            /\ failures = 0 => RecordedLedgerHash(role) # None

\* Once the digest of a ledger is taken, no step of the run writes the
\* ledger again.
LedgerClosedAfterPass ==
    /\ ( \/ pc \in {"copy_begin", "copy", "compare", "manifest", "status"}
         \/ pc \in {"hash_open", "hash"} /\ pass = "dest" )
          => ledgers'["source"] = ledgers["source"]
    /\ pc \in {"compare", "manifest", "status"}
          => ledgers'["dest"] = ledgers["dest"]

MaxRows == 2
MaxCols == 6
MaxCalls == 2

HEADERS == << "seed", "date", "action", "next", "note" >>
LEGACY_HEADERS == << "seed", "date", "action", "note", "next" >>

\* The number of columns ensure_csv migrates.
NumColumns == 5

\* A header that is neither of the two.
OtherHeader == << "seed", "date" >>

\* The field of column k in data row r of the file before the call.
Field(r, k) == "r" \o ToString(r) \o "c" \o ToString(k)

\* row[:n]
RowPrefix(row, n) == SubSeq(row, 1, IF Len(row) < n THEN Len(row) ELSE n)

\* (row + [""] * 5)[:5]
PadRow(row) == RowPrefix(row \o [k \in 1..NumColumns |-> ""], NumColumns)

\* seed, date, action, note, nxt = ...; rows.append([seed, date, action,
\* nxt, note])
MigrateRow(row) ==
    LET r == IF Len(row) >= NumColumns THEN RowPrefix(row, NumColumns)
             ELSE PadRow(row)
    IN  << r[1], r[2], r[3], r[5], r[4] >>

CsvFiles ==
    { [exists |-> FALSE, rows |-> << >>], [exists |-> TRUE, rows |-> << >>] }
    \cup
    { [exists |-> TRUE,
       rows   |-> << h >> \o [r \in 1..n |-> [k \in 1..len[r] |-> Field(r, k)]]] :
        h \in {HEADERS, LEGACY_HEADERS, OtherHeader},
        n \in 0..MaxRows,
        len \in [1..MaxRows -> 0..MaxCols] }

InitSeedLog ==
    /\ InitPipelineIdle
    /\ atomize = AtomizeIdle
    /\ \E f \in CsvFiles :
          seed_csv = [ calls    |-> 0,
                       file     |-> f,
                       original |-> f,
                       after    |-> << >>,
                       backups  |-> << >> ]

\* One call of ensure_csv(path).
ensure_csv ==
    /\ seed_csv.calls < MaxCalls
    /\ LET f       == seed_csv.file
           current == IF f.rows = << >> THEN << >> ELSE f.rows[1]
           data    == SubSeq(f.rows, 2, Len(f.rows))
           done(g, b) ==
               seed_csv' = [ seed_csv EXCEPT !.calls   = @ + 1,
                                             !.file    = g,
                                             !.after   = Append(@, g),
                                             !.backups = @ \o b ]
       IN  IF ~f.exists \/ f.rows = << >>
           THEN done([exists |-> TRUE, rows |-> << HEADERS >>], << >>)
           ELSE IF current = HEADERS
           THEN done(f, << >>)
           ELSE IF current = LEGACY_HEADERS
           THEN \E b \in { << >>, << f.rows >> } :
                    done([exists |-> TRUE,
                          rows   |-> << HEADERS >> \o
                                     [r \in 1..Len(data) |-> MigrateRow(data[r])]],
                         b)
           ELSE done(f, << >>)
    /\ UNCHANGED << PipelineVars, atomize >>

NextSeedLog == ensure_csv

SpecSeedLog == InitSeedLog /\ [][NextSeedLog]_vars

\* The data rows of a CSV file.
DataRows(f) == IF f.rows = << >> THEN << >> ELSE SubSeq(f.rows, 2, Len(f.rows))

\* A row with note and next exchanged, padded with empty fields to five
\* columns when it is shorter, every field of it kept.
Swapped(row) ==
    LET n == IF Len(row) < 5 THEN 5 ELSE Len(row)
        p == [k \in 1..n |-> IF k <= Len(row) THEN row[k] ELSE ""]
    IN  [k \in 1..n |-> IF k = 4 THEN p[5] ELSE IF k = 5 THEN p[4] ELSE p[k]]

EnsureCsvOutcome(before, now) ==
    IF ~before.exists \/ before.rows = << >>
    THEN now = [exists |-> TRUE,
                rows   |-> << << "seed", "date", "action", "next", "note" >> >>]
    ELSE IF before.rows[1] = << "seed", "date", "action", "note", "next" >>
    THEN /\ now.exists
         /\ Len(now.rows) = Len(before.rows)
         /\ now.rows[1] = << "seed", "date", "action", "next", "note" >>
         /\ \A r \in 1..Len(DataRows(before)) :
                DataRows(now)[r] = Swapped(DataRows(before)[r])
    ELSE IF before.rows[1] = << "seed", "date", "action", "next", "note" >>
    THEN now = before
    ELSE TRUE

\* C28: ensure_csv creates a missing or empty CSV with the header
\* seed,date,action,next,note; rewrites a CSV with the legacy header under
\* the new header with every data row kept, in the original order, note and
\* next exchanged and short rows padded to five columns, no row added or
\* dropped; leaves a CSV with the new header unchanged; and a second call
\* changes nothing.
C28_EnsureCsv ==
    /\ seed_csv.calls >= 1 => EnsureCsvOutcome(seed_csv.original, seed_csv.after[1])
    /\ seed_csv.calls >= 2 => seed_csv.after[2] = seed_csv.after[1]

\* The same for CSV files whose data rows have at most five columns.
C28_EnsureCsvUpToFiveColumns ==
    (\A r \in 1..Len(DataRows(seed_csv.original)) :
         Len(DataRows(seed_csv.original)[r]) <= 5)
    => C28_EnsureCsv

\* The destination digest pass runs over the list the copy returned, and
\* the destination mapping has exactly those paths as keys.
DestMappingOverCopied ==
    /\ (pc \in {"hash_open", "hash"} /\ pass = "dest") => relpaths = copied_relpaths
    /\ pc \in {"compare", "manifest", "status"} =>
           DOMAIN dest_shas = Range(copied_relpaths)

\* Every copied path is a key of the source mapping.
CopiedAreSourceKeys ==
    pc \in {"copy", "hash_open", "hash", "compare", "manifest", "status"} =>
        Range(copied_relpaths) \subseteq DOMAIN src_shas

\* The comparison of the full flow reports no extra path.
NoExtraInFullFlow ==
    verification_summary # << >> =>
        verification_summary[1].extra_in_destination = 0

\* C29: in the full flow the destination mapping is computed over exactly
\* the list of copied paths, that list is a subset of the keys of the source
\* mapping, and consequently extra_in_destination is 0 in every full flow,
\* files that were already in an existing destination included.
C29_DestMappingIsCopiedAndNoExtra ==
    cmd = "all" =>
        DestMappingOverCopied /\ CopiedAreSourceKeys /\ NoExtraInFullFlow

\* The two parts about the keys alone.
C29_KeysOnly ==
    cmd = "all" => DestMappingOverCopied /\ CopiedAreSourceKeys

\* The whole statement for the runs in which no read of a source file failed
\* while its digest was taken.
C29_WhenSourceDigestsExist ==
    (\A p \in DOMAIN src_shas : src_shas[p] # None)
        => C29_DestMappingIsCopiedAndNoExtra

\* The three counters of the non-matched categories are zero.
CountersZero(summary) ==
    /\ summary.mismatched = 0
    /\ summary.missing_in_destination = 0
    /\ summary.extra_in_destination = 0

\* The path has the same digest in both mappings.
IsMatchedPath(p) ==
    /\ p \in DOMAIN src_shas
    /\ p \in DOMAIN dest_shas
    /\ src_shas[p] # None
    /\ src_shas[p] = dest_shas[p]

\* The run has returned.
Returned == cmd = "all" /\ pc = "done"

\* Status 0 is returned exactly for a comparison with the three counters at
\* zero, and only with the manifest written; a run that ended before the
\* comparison has another status.
ExitStatusByCounters ==
    Returned =>
        /\ rc = 0 => manifest # << >> /\ verification_summary # << >>
        /\ verification_summary # << >> =>
               (rc = 0 <=> CountersZero(verification_summary[1]))
        /\ verification_summary = << >> => rc # 0

C30_ReturnsZero ==
    /\ Returned /\ rc = 0 /\ DOMAIN src_shas # {}
    /\ \A p \in DOMAIN src_shas \cup DOMAIN dest_shas : IsMatchedPath(p)

\* A run that ended before the comparison.
C30_Aborts ==
    Returned /\ rc \in {2, 3, 4} /\ verification_summary = << >>

====
